---- MODULE Spec2Model ----
(***************************************************************************)
(* A model of the LoST server of irtlab/lost (src/lost/server.py): the     *)
(* POST / handler, the geodetic-2d findService / findIntersect engine,     *)
(* proxying to a peer, and the serialization of errors                     *)
(* (src/lost/errors.py).                                                   *)
(*                                                                         *)
(* XML elements are records [ns, tag, xmlns, attrs, text, children]:       *)
(*   ns       the namespace of the element's tag (NoNamespace when the     *)
(*            element was created with a bare tag),                        *)
(*   xmlns    the default namespace the element declares (nsmap[None]),    *)
(*   attrs    a set of <<name, value>> pairs,                              *)
(*   children a sequence of elements.                                      *)
(* Geometries are sets of <<lon, lat>> cells of a small grid (the order    *)
(* of PostGIS WKT); a GML pos is the token list "lat lon".                 *)
(***************************************************************************)
EXTENDS Integers, Sequences, FiniteSets, TLC

VARIABLES
    shape,      \* the shape table: rows [id, uri, geometries]
    mapping,    \* the server.mapping table: rows [id, shape, srv, updated, attrs]
    redirect,   \* GeographicLoSTServer.redirect (the --redirect flag)
    authoritative, \* GeographicLoSTServer.authoritative (--authoritative)
    req,        \* the HTTP request of the last POST / handled
    res,        \* the HTTP response given to it
    posts,      \* the peer POSTs issued while handling it
    exc,        \* the LoSTError lost_error serialized for it, if any
    client,     \* how LoSTClient.submit ended on the response, if it ran
    resolver,   \* the resolver's handler (resolver/handler.py): its loop
    loader,     \* the runs of `load` (server.py) and the update_db calls
    queries,    \* the store queries issued while handling the last request
    fed,        \* a request on its way through a federation of servers
    pool,       \* db.pool and the requests that are being served
    race        \* update_db calls that run at the same time

vars == <<shape, mapping, redirect, authoritative, req, res, posts, exc,
          client, resolver, loader, queries, fed, pool, race>>

----------------------------------------------------------------------------
(* Bounds *)

MaxMappings == 2    \* rows of the mapping table
MaxCoord == 1       \* coordinates are 0..MaxCoord
MaxTokens == 3      \* tokens of a gml:pos
MaxHops == 3        \* POSTs of one run of the resolver's handler
MaxRuns == 2        \* runs of `load`
MaxCalls == 2       \* update_db calls made outside a run of `load`
MaxDepth == 4       \* servers one request passes on its way down a federation
MaxThreads == 2     \* requests that Flask serves at the same time
MaxCon == 1         \* max_con of db.init: the size of the connection pool

----------------------------------------------------------------------------
(* Program constants *)

LOST_MIME_TYPE == "application/lost+xml"
LOST_NAMESPACE == "urn:ietf:params:xml:ns:lost1"
GML_NAMESPACE == "http://www.opengis.net/gml"
XML_NAMESPACE == "http://www.w3.org/XML/1998/namespace"
SRS_URN == "urn:ogc:def:crs:EPSG::4326"

\* --server-id default
server_id == "lost-server"

\* the profiles start() registers in lost_server: geodetic-2d only (the
\* civic server is registered only with --civic-table)
lost_server == {"geodetic-2d"}

\* the srv marker update_db writes on the mappings that point at a peer
LOST_SRV == "lost"

----------------------------------------------------------------------------
(* XML elements *)

NoNamespace == "(none)"
Absent == "(absent)"

E(ns, tag, xmlns, attrs, text, children) ==
    [ns |-> ns, tag |-> tag, xmlns |-> xmlns, attrs |-> attrs,
     text |-> text, children |-> children]

\* lxml Element(f'{{{LOST_NAMESPACE}}}tag', nsmap=NAMESPACE_MAP)
Element(tag, attrs, children) ==
    E(LOST_NAMESPACE, tag, LOST_NAMESPACE, attrs, "", children)

\* lxml SubElement(parent, 'tag', ...): a bare tag, in no namespace
SubElement(tag, attrs, text, children) ==
    E(NoNamespace, tag, NoNamespace, attrs, text, children)

\* the value None (proxy_request falls off its end) and the body of a
\* response that carries no XML document
None == E(NoNamespace, "", NoNamespace, {}, "", <<>>)

\* element.get(name)
Attr(e, name) ==
    IF \E p \in e.attrs : p[1] = name
    THEN (CHOOSE p \in e.attrs : p[1] = name)[2]
    ELSE Absent

\* the children of e with the local name tag
Children(e, tag) == SelectSeq(e.children, LAMBDA c : c.tag = tag)

\* What a receiver parses from lxml.etree.tostring(doc): an element without
\* a namespace is written without prefix and without xmlns="", and so is
\* read back in the default namespace in scope.
RECURSIVE tostring(_, _)
tostring(e, inherited) ==
    LET dflt == IF e.xmlns # NoNamespace THEN e.xmlns ELSE inherited
    IN  [e EXCEPT !.ns = IF e.ns = NoNamespace THEN dflt ELSE e.ns,
                  !.xmlns = IF e.ns = NoNamespace THEN NoNamespace ELSE e.xmlns,
                  !.children = [i \in DOMAIN e.children |->
                                   tostring(e.children[i], dflt)]]

\* the server ids of the <via> entries of the <path> of a document
PathOf(doc) ==
    LET ps == Children(doc, "path")
    IN  IF ps = <<>> THEN <<>>
        ELSE [i \in DOMAIN ps[1].children |-> Attr(ps[1].children[i], "source")]

----------------------------------------------------------------------------
(* The store: shapes and mappings *)

Coords == 0..MaxCoord

\* JSONB attrs of a mapping row: an optional displayName and an optional
\* uri, which is one string or a list of strings
Attrs(displayName, kind, val) ==
    [displayName |-> displayName, uri |-> [kind |-> kind, val |-> val]]

PeerUrl == "http://peer-ny:5000"
PeerUrl2 == "http://peer-nj:5000"
ServiceUri == "sip:psap@example"
ServiceUri2 == "sips:psap@example"
ServiceUrl == "https://psap.example/sos"

\* the strings requests.post can send a request to
HTTP_URLS == {PeerUrl, PeerUrl2, ServiceUrl}

\* iterating a Python str yields its characters
Chars(s) ==
    CASE s = PeerUrl ->
           <<"h","t","t","p",":","/","/","p","e","e","r","-","n","y",":","5","0","0","0">>
      [] s = PeerUrl2 ->
           <<"h","t","t","p",":","/","/","p","e","e","r","-","n","j",":","5","0","0","0">>
      [] s = ServiceUri ->
           <<"s","i","p",":","p","s","a","p","@","e","x","a","m","p","l","e">>
      [] s = ServiceUri2 ->
           <<"s","i","p","s",":","p","s","a","p","@","e","x","a","m","p","l","e">>
      [] s = ServiceUrl ->
           <<"h","t","t","p","s",":","/","/","p","s","a","p",".","e","x","a","m",
             "p","l","e","/","s","o","s">>

\* `for uri in attrs['uri']`
IterUri(uri) == IF uri.kind = "str" THEN Chars(uri.val[1]) ELSE uri.val

\* the shapes of the store: a region and a smaller region nested in it
ShapeRows ==
    { [id |-> 1, uri |-> "https://osm.org/relation/1",
       geometries |-> {<<0, 0>>, <<0, 1>>}],
      [id |-> 2, uri |-> "https://osm.org/relation/2",
       geometries |-> {<<0, 1>>}] }

SOS == "urn:service:sos"

\* the rows the mapping table is drawn from: leaf rows of a service (a
\* list of service URIs, one URI string that is a sip: URI or the URL
\* of a web service, no uri at all) and the rows
\* update_db writes for a peer (srv='lost', attrs={'uri': <peer url>})
MappingRows ==
    { [id |-> 1, shape |-> 1, srv |-> SOS, updated |-> "2024-01-01T00:00:00",
       attrs |-> Attrs("NY PSAP", "list", <<ServiceUri, ServiceUri2>>)],
      [id |-> 2, shape |-> 2, srv |-> SOS, updated |-> "2024-01-02T00:00:00",
       attrs |-> Attrs(Absent, "list", <<ServiceUri>>)],
      [id |-> 3, shape |-> 1, srv |-> LOST_SRV, updated |-> "2024-01-03T00:00:00",
       attrs |-> Attrs(Absent, "str", <<PeerUrl>>)],
      [id |-> 4, shape |-> 2, srv |-> LOST_SRV, updated |-> "2024-01-04T00:00:00",
       attrs |-> Attrs(Absent, "str", <<PeerUrl2>>)],
      [id |-> 5, shape |-> 2, srv |-> SOS, updated |-> "2024-01-05T00:00:00",
       attrs |-> Attrs("No URI", "none", <<>>)],
      [id |-> 6, shape |-> 1, srv |-> SOS, updated |-> "2024-01-06T00:00:00",
       attrs |-> Attrs(Absent, "str", <<ServiceUri>>)],
      [id |-> 7, shape |-> 2, srv |-> SOS, updated |-> "2024-01-07T00:00:00",
       attrs |-> Attrs(Absent, "str", <<ServiceUrl>>)] }

\* a mapping that points at a more specific LoST server
NonLeaf(m) == m.srv = LOST_SRV

\* ST_Contains(s.geometries, ST_GeomFromText(p, 4326))
ST_Contains(geometries, p) == p \in geometries

\* ST_Intersects(s.geometries, g)
ST_Intersects(geometries, g) == geometries \cap g # {}

\* ST_AsGML(3, s.geometries, 5, 17)
ST_AsGML(geometries) == ToString(geometries)

\* SELECT m.id, m.srv, m.updated, m.attrs, ST_AsGML(...) of mapping m
\* joined with its shape s
JoinRow(m, s) ==
    [id |-> m.id, srv |-> m.srv, updated |-> m.updated, attrs |-> m.attrs,
     shape |-> ST_AsGML(s.geometries)]

\* cur.fetchone() returning None
NoRow ==
    [id |-> 0, srv |-> "", updated |-> "", attrs |-> Attrs(Absent, "none", <<>>),
     shape |-> ""]

\* cur.fetchone(): the query has no ORDER BY, any row of the result may
\* come first
fetchone(rows) == IF rows = {} THEN {NoRow} ELSE rows

\* first query of findService: the mappings of the service whose shape
\* contains the point
SelectContainsService(p, service) ==
    { JoinRow(m, s) : <<m, s>> \in
        { ms \in mapping \X shape :
            /\ ms[1].shape = ms[2].id
            /\ ST_Contains(ms[2].geometries, p)
            /\ ms[1].srv = service } }

\* second query of findService: the mappings of any service whose shape
\* contains the point
SelectContains(p) ==
    { JoinRow(m, s) : <<m, s>> \in
        { ms \in mapping \X shape :
            /\ ms[1].shape = ms[2].id
            /\ ST_Contains(ms[2].geometries, p) } }

\* the query of findIntersect
SelectIntersectsService(g, service) ==
    { JoinRow(m, s) : <<m, s>> \in
        { ms \in mapping \X shape :
            /\ ms[1].shape = ms[2].id
            /\ ST_Intersects(ms[2].geometries, g)
            /\ ms[1].srv = service } }

----------------------------------------------------------------------------
(* Requests *)

\* The body of a POST /, parsed: wellformed is whether lxml can parse it,
\* ns and type_ are the namespace and local name of the root, recursive
\* its attribute, path the server ids of its <path>, profile the
\* attribute of <location> / <interest>, service the text of <service>,
\* srsName and geomTag describe the geometry, pos is the token list of a
\* gml:pos ("lat lon"), cells the <<lat, lon>> positions a polygon covers.
BaseData ==
    [wellformed |-> TRUE, ns |-> LOST_NAMESPACE, type_ |-> "findService",
     recursive |-> TRUE, path |-> <<>>, profile |-> "geodetic-2d",
     service |-> SOS, srsName |-> SRS_URN, geomTag |-> "Point",
     pos |-> <<1, 0>>, cells |-> {}]

BaseReq == [mimetype |-> LOST_MIME_TYPE, data |-> BaseData]

RequestTypes ==
    {"findService", "findIntersect", "getServiceBoundary", "listServices",
     "listServicesByLocation", "findServiceByName"}

Services == {SOS, LOST_SRV}

Paths == {<<>>, <<"lost-root">>, <<"lost-root", server_id>>}

\* token lists of a gml:pos: a pair of coordinates, or the wrong number
\* of tokens
PosTokens ==
    {<<lat, lon>> : lat \in Coords, lon \in Coords}
    \cup {[i \in 1..n |-> 0] : n \in (1..MaxTokens) \ {2}}

\* the GML geometry elements a request may carry
GeomTags == {"Point", "Polygon", "MultiPolygon", "LineString"}

\* positions whose latitude or longitude is not a WGS-84 coordinate
OutOfRangePos == {<<91, 0>>, <<0, 181>>}

Requests ==
    {[BaseReq EXCEPT !.mimetype = m] : m \in {"text/xml"}}
    \cup {[BaseReq EXCEPT !.data.wellformed = FALSE]}
    \cup {[BaseReq EXCEPT !.data.ns = n] : n \in {"urn:ietf:params:xml:ns:lost2"}}
    \cup {[BaseReq EXCEPT !.data.type_ = t] : t \in RequestTypes}
    \cup {[BaseReq EXCEPT !.data.type_ = t, !.data.profile = p] :
            t \in {"findService", "findIntersect"}, p \in {"civic"}}
    \cup {[BaseReq EXCEPT !.data.type_ = t, !.data.srsName = n,
                          !.data.geomTag = g] :
            t \in {"findService", "findIntersect"},
            n \in {"urn:ogc:def:crs:EPSG::3857", Absent},
            g \in GeomTags}
    \cup {[BaseReq EXCEPT !.data.type_ = t, !.data.geomTag = g,
                          !.data.cells = c] :
            t \in {"findService", "findIntersect"},
            g \in GeomTags \ {"Point", "Polygon"},
            c \in {{<<1, 0>>, <<1, 1>>}}}
    \cup {[BaseReq EXCEPT !.data.pos = ps] : ps \in OutOfRangePos}
    \cup {[BaseReq EXCEPT !.data.geomTag = "Polygon", !.data.cells = c] :
            c \in {{<<1, 0>>, <<1, 1>>}}}
    \cup {[BaseReq EXCEPT !.data.type_ = "findIntersect", !.data.service = sv,
                          !.data.geomTag = "Polygon", !.data.cells = c] :
            sv \in Services, c \in {{<<1, 0>>, <<1, 1>>}, {<<0, 1>>}}}
    \cup {[BaseReq EXCEPT !.data.type_ = "findIntersect", !.data.service = sv,
                          !.data.pos = ps] :
            sv \in Services, ps \in PosTokens}
    \cup {[BaseReq EXCEPT !.data.recursive = rc, !.data.path = pa,
                          !.data.service = sv, !.data.pos = ps] :
            rc \in BOOLEAN, pa \in Paths, sv \in Services, ps \in PosTokens}

----------------------------------------------------------------------------
(* Peers *)

PeerId == "peer-ny"

\* documents a peer may answer with, as parsed from its reply
PeerMapping ==
    E(LOST_NAMESPACE, "mapping", NoNamespace,
      {<<"source", PeerId>>, <<"sourceId", "7">>}, "",
      << E(LOST_NAMESPACE, "service", NoNamespace, {}, SOS, <<>>),
         E(LOST_NAMESPACE, "uri", NoNamespace, {}, ServiceUri, <<>>) >>)

PeerPath ==
    E(LOST_NAMESPACE, "path", NoNamespace, {}, "",
      << E(LOST_NAMESPACE, "via", NoNamespace, {<<"source", PeerId>>}, "", <<>>) >>)

PeerErrors(kind) ==
    E(LOST_NAMESPACE, "errors", LOST_NAMESPACE, {}, "",
      << E(LOST_NAMESPACE, kind, NoNamespace,
           {<<"message", "peer says no">>, <<"source", PeerId>>,
            <<"xml:lang", "en">>}, "", <<>>) >>)

PeerDocs ==
    { E(LOST_NAMESPACE, "findServiceResponse", LOST_NAMESPACE, {}, "",
        <<PeerMapping>>),
      E(LOST_NAMESPACE, "findServiceResponse", LOST_NAMESPACE, {}, "",
        <<PeerMapping, PeerPath>>),
      PeerErrors("notFound"),
      PeerErrors("loop"),
      E(LOST_NAMESPACE, "redirect", LOST_NAMESPACE,
        {<<"target", PeerUrl2>>, <<"source", PeerId>>,
         <<"message", "Redirecting to the next more specific server.">>}, "", <<>>),
      E(NoNamespace, "html", NoNamespace, {}, "", <<>>) }

\* outcomes of requests.post: an exception (connection refused), the
\* exception of a peer that did not answer (requests.post is given no
\* timeout, so it is the transport that gives up), or a response with a
\* status and a content that may not be XML
Reply(kind, status, wellformed, doc) ==
    [kind |-> kind, status |-> status, wellformed |-> wellformed, doc |-> doc]

PeerReplies ==
    {Reply("exception", 0, FALSE, None)}
    \cup {Reply("timeout", 0, FALSE, None)}
    \cup {Reply("response", 502, FALSE, None)}
    \cup {Reply("response", 200, FALSE, None)}
    \cup {Reply("response", 200, TRUE, d) : d \in PeerDocs}

----------------------------------------------------------------------------
(* Outcomes of a Python call: a returned document, a raised LoSTError of
   a type, or another exception; with the peer POSTs issued on the way *)

Return(doc, p) ==
    [kind |-> "return", doc |-> doc, type |-> "", message |-> "", posts |-> p]

Raise(type, message) ==
    [kind |-> "raise", doc |-> None, type |-> type, message |-> message,
     posts |-> <<>>]

Exception(class) ==
    [kind |-> "exception", doc |-> None, type |-> class, message |-> "",
     posts |-> <<>>]

----------------------------------------------------------------------------
(* errors.py *)

\* the subclasses of LoSTError: class name, base class, and `type`
ErrorClass(name, base, type) == [name |-> name, base |-> base, type |-> type]

ErrorClasses ==
    { ErrorClass("BadRequest", "LoSTError", "badRequest"),
      ErrorClass("Forbidden", "LoSTError", "forbidden"),
      ErrorClass("InternalError", "LoSTError", "internalError"),
      ErrorClass("LocationProfileUnrecognized", "LoSTError",
                 "locationProfileUnrecognized"),
      ErrorClass("LocationInvalid", "LoSTError", "locationInvalid"),
      ErrorClass("SRSInvalid", "LoSTError", "SRSInvalid"),
      ErrorClass("Loop", "LoSTError", "loop"),
      ErrorClass("NotFound", "LoSTError", "notFound"),
      ErrorClass("ServerError", "LoSTError", "serverError"),
      ErrorClass("ServerTimeout", "LoSTError", "serverTimeout"),
      ErrorClass("NotAuthoritative", "LoSTError", "notAuthoritative"),
      ErrorClass("NotImplemented", "LoSTError", "notImplemented"),
      ErrorClass("ServiceNotImplemented", "NotImplemented",
                 "serviceNotImplemented"),
      ErrorClass("GeometryNotImplemented", "NotImplemented",
                 "geometryNotImplemented") }

\* a serialization that puts the kind in an attribute of a fixed child
to_xml_generic(type, message, source) ==
    Element("errors", {},
        << SubElement("error",
              {<<"type", type>>, <<"message", message>>, <<"source", source>>,
               <<"xml:lang", "en">>},
              "", <<>>) >>)

\* LoSTError.to_xml(source) of an error of the given type
to_xml(type, message, source) ==
    Element("errors", {},
        << SubElement(type,
              (IF message # Absent THEN {<<"message", message>>} ELSE {})
              \cup (IF source # Absent THEN {<<"source", source>>} ELSE {})
              \cup {<<"xml:lang", "en">>},
              "", <<>>) >>)

----------------------------------------------------------------------------
(* GeographicLoSTServer *)

\* datetime.now() and (datetime.now() + timedelta(days=1)).isoformat()
Now == "2024-06-01T12:00:00"
Expires(now) == IF now = "2024-06-01T12:00:00" THEN "2024-06-02T12:00:00" ELSE Absent

\* serviceBoundary(value): the ST_AsGML output wrapped in a boundary element
serviceBoundary(value) ==
    E(NoNamespace, "serviceBoundary", NoNamespace, {<<"profile", "geodetic-2d">>}, "",
      << E(GML_NAMESPACE, "MultiGeometry", NoNamespace, {}, value, <<>>) >>)

\* the <uri> children of a mapping element
UriElements(uris) == [i \in DOMAIN uris |-> SubElement("uri", {}, uris[i], <<>>)]

\* the <mapping> element both operations build from a row
MappingElement(row, uris) ==
    SubElement("mapping",
        {<<"source", server_id>>, <<"sourceId", ToString(row.id)>>,
         <<"lastUpdated", row.updated>>, <<"expires", Expires(Now)>>},
        "",
        (IF row.attrs.displayName # Absent
         THEN << SubElement("displayName", {<<"xml:lang", "en">>},
                            row.attrs.displayName, <<>>) >>
         ELSE <<>>)
        \o << SubElement("service", {}, row.srv, <<>>) >>
        \o << serviceBoundary(row.shape) >>
        \o UriElements(uris))

\* a redirect that names the target as its source and carries a path
redirect_res_path(attrs) ==
    Element("redirect",
        {<<"target", attrs.uri.val[1]>>, <<"source", attrs.uri.val[1]>>,
         <<"message", "Redirecting to the next more specific server.">>},
        << SubElement("path", {}, "",
              << SubElement("via", {<<"source", server_id>>}, "", <<>>) >>) >>)

\* the <redirect> findService answers with in redirect mode
redirect_res(attrs) ==
    Element("redirect",
        {<<"target", attrs.uri.val[1]>>, <<"source", server_id>>,
         <<"message", "Redirecting to the next more specific server.">>},
        <<>>)

\* the element findService and proxy_request return instead of raising
error_res(message) == Element("error", {<<"message", message>>}, <<>>)

\* proxy_request, given what requests.post brings: the peer's document on
\* status 200, the error element on an exception (also the XMLSyntaxError
\* of an unparseable body), and nothing on any other status
ProxyResult(reply) ==
    IF reply.kind \in {"exception", "timeout"} THEN error_res("Proxy failed.")
    ELSE IF reply.status = 200
         THEN IF reply.wellformed THEN reply.doc ELSE error_res("Proxy failed.")
         ELSE None

\* GeographicLoSTServer.proxy_request(server_uri, original_request): the
\* request is forwarded as it came; requests.post raises before sending
\* when server_uri is not an http URL
proxy_request(server_uri, original_request) ==
    IF server_uri.kind = "str" /\ server_uri.val[1] \in HTTP_URLS
    THEN { Return(ProxyResult(reply),
                  << [url |-> server_uri.val[1], data |-> original_request,
                      reply |-> reply] >>) : reply \in PeerReplies }
    ELSE { Return(error_res("Proxy failed."), <<>>) }

\* a server that lets the client's recursive flag override its redirect mode
SendRedirect_unlessRecursive(d) == redirect /\ ~d.recursive

\* `if self.redirect:` in findService
SendRedirect(d) == redirect

\* findService once the first query returned a row
MatchedRow(d, row) ==
    IF row.attrs.uri.kind = "none" THEN {Exception("KeyError")}
    ELSE IF SendRedirect(d)
         THEN IF row.attrs.uri.kind = "str"
              THEN {Return(redirect_res(row.attrs), <<>>)}
              ELSE {Exception("TypeError")}
         ELSE proxy_request(row.attrs.uri, d)

\* findService once the first query returned no row: the second query
LeafRow(row) ==
    IF row = NoRow THEN Return(error_res("No suitable mapping found."), <<>>)
    ELSE Return(
           Element("findServiceResponse", {},
               << MappingElement(row,
                     IF row.attrs.uri.kind = "none" THEN <<>>
                     ELSE IterUri(row.attrs.uri)) >>),
           <<>>)

\* a server that takes a geometry without srsName as being in the default SRS
srsName_ok_default(d) == d.srsName \in {SRS_URN, Absent}

\* `geom.attrib.get('srsName') != SRS_URN` does not hold
srsName_ok(d) == d.srsName = SRS_URN

\* GeographicLoSTServer.findService(req)
Geo_findService(d) ==
    IF ~srsName_ok(d) THEN {Raise("SRSInvalid", "Unsupported SRS name")}
    ELSE IF d.geomTag # "Point"
    THEN {Raise("geometryNotImplemented", "Unsupported geometry type")}
    ELSE IF Len(d.pos) # 2 THEN {Exception("ValueError")}
    ELSE LET lat == d.pos[1]
             lon == d.pos[2]
             p == <<lon, lat>>
             first == fetchone(SelectContainsService(p, d.service))
         IN  UNION { IF row # NoRow THEN MatchedRow(d, row)
                     ELSE { LeafRow(row2) : row2 \in fetchone(SelectContains(p)) }
                     : row \in first }

\* ST_GeomFromGML of the request geometry: positions come as lat lon and
\* the srsName urn makes PostGIS swap them
ST_GeomFromGML(d) ==
    IF d.geomTag = "Point" THEN {<<d.pos[2], d.pos[1]>>}
    ELSE {<<c[2], c[1]>> : c \in d.cells}

\* GeographicLoSTServer.findIntersect(req)
Geo_findIntersect(d) ==
    IF ~srsName_ok(d) THEN {Raise("SRSInvalid", "Unsupported SRS name")}
    ELSE IF d.geomTag = "Point" /\ Len(d.pos) # 2 THEN {Exception("DatabaseError")}
    ELSE { IF row = NoRow THEN Raise("notFound", "No suitable mapping found")
           ELSE Return(
                  Element("findIntersectResponse", {},
                      << MappingElement(row,
                            IF row.attrs.uri.kind = "none" THEN <<>>
                            ELSE IterUri(row.attrs.uri)) >>),
                  <<>>)
           : row \in fetchone(SelectIntersectsService(ST_GeomFromGML(d), d.service)) }

----------------------------------------------------------------------------
(* The Flask application *)

\* a dispatch that hands an unknown profile to the geodetic-2d server
ProfileDispatch_fallback(d, outcomes) ==
    { IF o.kind = "exception" /\ o.type = "KeyError"
      THEN Raise("locationProfileUnrecognized", "Unsupported profile")
      ELSE o : o \in outcomes }

\* `except KeyError` around the profile lookup and the call of the server
ProfileDispatch(d, outcomes) ==
    IF d.profile \notin lost_server
    THEN {Raise("locationProfileUnrecognized", "Unsupported profile")}
    ELSE { IF o.kind = "exception" /\ o.type = "KeyError"
           THEN Raise("locationProfileUnrecognized", "Unsupported profile")
           ELSE o : o \in outcomes }

\* findService(req)
findService(d) == ProfileDispatch(d, Geo_findService(d))

\* findIntersect(req)
findIntersect(d) == ProfileDispatch(d, Geo_findIntersect(d))

\* a route that takes any XML content type
mimetype_ok_xml(r) == r.mimetype \in {LOST_MIME_TYPE, "text/xml"}

\* `request.mimetype != LOST_MIME_TYPE` does not hold
mimetype_ok(r) == r.mimetype = LOST_MIME_TYPE

\* lost_request(): the route of POST /
lost_request(r) ==
    IF ~mimetype_ok(r) THEN {Raise("badRequest", "Unknown Content-Type")}
    ELSE IF ~r.data.wellformed THEN {Raise("badRequest", "XML syntax error")}
    ELSE IF r.data.ns # LOST_NAMESPACE
    THEN {Raise("badRequest", "Unsupported XML namespace")}
    ELSE CASE r.data.type_ = "findService" -> findService(r.data)
           [] r.data.type_ = "findIntersect" -> findIntersect(r.data)
           [] r.data.type_ = "getServiceBoundary" ->
                {Raise("notImplemented", "<getServiceBoundary> not implemented")}
           [] r.data.type_ = "listServices" ->
                {Raise("badRequest", "<listServices> not implemented")}
           [] r.data.type_ = "listServicesByLocation" ->
                {Raise("badRequest", "<listServicesByLocation> not implemented")}
           [] OTHER -> {Raise("notImplemented", "Unsupported request type")}

\* the store queries issued while lost_request handles r, in their order:
\* one per `with self.db.connection()` block that is entered
store_calls(r) ==
    IF ~mimetype_ok(r) \/ ~r.data.wellformed \/ r.data.ns # LOST_NAMESPACE
       \/ r.data.type_ \notin {"findService", "findIntersect"}
       \/ r.data.profile \notin lost_server
       \/ ~srsName_ok(r.data)
    THEN <<>>
    ELSE IF r.data.type_ = "findIntersect" THEN <<"SelectIntersectsService">>
    ELSE IF r.data.geomTag # "Point" \/ Len(r.data.pos) # 2 THEN <<>>
    ELSE IF SelectContainsService(<<r.data.pos[2], r.data.pos[1]>>,
                                  r.data.service) # {}
    THEN <<"SelectContainsService">>
    ELSE <<"SelectContainsService", "SelectContains">>

Response(status, mimetype, body) ==
    [status |-> status, mimetype |-> mimetype, body |-> body]

\* what Flask answers when the view raises an exception no handler is
\* registered for
InternalServerError == Response(500, "text/html", None)

\* xmlify(doc): deannotate raises on None
xmlify(doc) ==
    IF doc = None THEN InternalServerError
    ELSE Response(200, LOST_MIME_TYPE, tostring(doc, NoNamespace))

\* lost_error(exc), the handler registered for LoSTError
lost_error(type, message) == xmlify(to_xml(type, message, server_id))

\* the HTTP response to a request whose view ended with outcome o
Respond(o) ==
    CASE o.kind = "return" -> xmlify(o.doc)
      [] o.kind = "raise" -> lost_error(o.type, o.message)
      [] OTHER -> InternalServerError

----------------------------------------------------------------------------
(* client.py: what LoSTClient makes of a response *)

\* LoSTError.raise_for_errors(errors): the class raised is looked up among
\* the classes whose direct base is LoSTError; the type is what follows
\* the LoST namespace in the tag of the first child
raise_for_errors(errors) ==
    IF ~(errors.ns = LOST_NAMESPACE /\ errors.tag = "errors")
    THEN Return(errors, <<>>)
    ELSE IF errors.children = <<>> THEN Exception("IndexError")
    ELSE LET error == errors.children[1]
             type_ == IF error.ns = LOST_NAMESPACE THEN error.tag ELSE Absent
             message == Attr(error, "message")
             found == {cls \in ErrorClasses :
                          cls.base = "LoSTError" /\ cls.type = type_}
         IN  IF found # {}
             THEN Raise((CHOOSE cls \in found : TRUE).type, message)
             ELSE Raise("error", message)

\* LoSTClient.submit from the response of POST on: urlopen raises
\* HTTPError on an error status, POST raises ServerError on a status or a
\* content type it does not expect, then raise_for_errors and the
\* namespace test
submit(response) ==
    IF response.status >= 400 THEN Exception("HTTPError")
    ELSE IF response.status < 200 \/ response.status > 299
    THEN Raise("serverError", "Unsupported HTTP status code")
    ELSE IF response.mimetype # LOST_MIME_TYPE
    THEN Raise("serverError", "Unsupported Content-Type")
    ELSE IF response.body = None
    THEN Raise("serverError", "XML syntax error")
    ELSE LET o == raise_for_errors(response.body)
         IN  IF o.kind # "return" THEN o
             ELSE IF response.body.ns # LOST_NAMESPACE
             THEN Raise("serverError", "Unsupported XML namespace")
             ELSE Return(response.body, <<>>)

\* LoSTClient.findService from the response of POST on: one request, and
\* any document but a <findServiceResponse> is an error
LoSTClient_findService(response) ==
    LET o == submit(response)
    IN  IF o.kind # "return" THEN o
        ELSE IF o.doc.tag # "findServiceResponse"
        THEN Raise("serverError", "Unexpected response type")
        ELSE o

----------------------------------------------------------------------------
(* resolver/handler.py: the resolver that forwards a request *)

RootUrl == "http://localhost:5000"
LOST2_NAMESPACE == "urn:ietf:params:xml:ns:lost2"

\* tree.xpath('//ns:tag'): the elements of that name, the root included,
\* in document order
RECURSIVE xpath(_, _, _), xpath_all(_, _, _)
xpath(e, ns, tag) ==
    (IF e.ns = ns /\ e.tag = tag THEN <<e>> ELSE <<>>)
        \o xpath_all(e.children, ns, tag)

xpath_all(es, ns, tag) ==
    IF es = <<>> THEN <<>>
    ELSE xpath(Head(es), ns, tag) \o xpath_all(Tail(es), ns, tag)

\* a <redirect> in the namespace the handler searches
Redirect2(target) ==
    E(LOST2_NAMESPACE, "redirect", LOST2_NAMESPACE,
      {<<"target", target>>, <<"source", PeerId>>}, "", <<>>)

\* the documents a server of the federation may answer the handler with:
\* the <redirect> of this server (redirect_res) to a peer, a <redirect>
\* in the other namespace to any server, and a final answer
ResolverDocs ==
    { tostring(redirect_res(Attrs(Absent, "str", <<u>>)), NoNamespace) :
          u \in HTTP_URLS }
    \cup { Redirect2(u) : u \in {RootUrl} \cup HTTP_URLS }
    \cup { E(LOST_NAMESPACE, "findServiceResponse", LOST_NAMESPACE, {}, "",
             <<PeerMapping, PeerPath>>) }

\* outcomes of the handler's requests.post
ResolverReplies ==
    {Reply("exception", 0, FALSE, None)}
    \cup {Reply("response", 502, FALSE, None)}
    \cup {Reply("response", 200, FALSE, None)}
    \cup {Reply("response", 200, TRUE, d) : d \in ResolverDocs}

\* the requests handed to the resolver
ResolverRequests == {[BaseReq.data EXCEPT !.recursive = b] : b \in BOOLEAN}

\* one iteration of `while True` with what requests.post brought: the
\* loop goes on to the target of the first lost2 <redirect> of the
\* document, and otherwise ends with the content of the response
handler_step(h, reply) ==
    LET seen == Append(h.visited, h.server_url)
        found == xpath(reply.doc, LOST2_NAMESPACE, "redirect")
        end(result) == [h EXCEPT !.pc = "done", !.visited = seen,
                                 !.response = reply, !.result = result]
    IN  IF reply.kind = "exception" THEN end(InternalServerError)
        ELSE IF reply.status # 200
        THEN end(Response(200, LOST_MIME_TYPE, None))
        ELSE IF ~reply.wellformed THEN end(InternalServerError)
        ELSE IF found # <<>>
        THEN [h EXCEPT !.server_url = Attr(found[1], "target"),
                       !.visited = seen, !.response = reply]
        ELSE end(Response(200, LOST_MIME_TYPE, reply.doc))

----------------------------------------------------------------------------
(* server.py `load` and update_db, osm.py extract_boundary *)

\* a feature of a GeoJSON file as osm2geojson writes it
Feature(type, ptype, id, name, geometry) ==
    [type |-> type,
     properties |-> [type |-> ptype, id |-> id,
                     timestamp |-> "2024-01-01T00:00:00Z",
                     tags |-> [name |-> name]],
     geometry |-> geometry]

FeatureCollection(features) ==
    [type |-> "FeatureCollection", features |-> features]

\* the files `load` is run on: the boundary of a region that the store may
\* already hold (the geometry of shape 2), a way that follows a node, and a
\* file with no relation and no way
GeoJSONFiles ==
    { FeatureCollection(
          << Feature("Feature", "relation", "2", "Region B", {<<0, 1>>}) >>),
      FeatureCollection(
          << Feature("Feature", "node", "30", Absent, {<<1, 1>>}),
             Feature("Feature", "way", "3", "Region C", {<<1, 0>>, <<1, 1>>}) >>),
      FeatureCollection(
          << Feature("Feature", "node", "30", Absent, {<<1, 1>>}) >>) }

\* extract_boundary(obj): geometry and attrs of the first relation or way;
\* attrs gets id, timestamp, country, state and name, and no key 'uri'
extract_boundary(obj) ==
    LET found == SelectSeq(obj.features,
                     LAMBDA f : /\ f.type = "Feature"
                                /\ f.properties.type \in {"relation", "way"})
    IN  IF obj.type # "FeatureCollection" \/ found = <<>>
        THEN [kind |-> "exception", geometry |-> {},
              attrs |-> [id |-> Absent, timestamp |-> Absent,
                         name |-> Absent, uri |-> Absent]]
        ELSE [kind |-> "return", geometry |-> found[1].geometry,
              attrs |-> [id |-> found[1].properties.id,
                         timestamp |-> found[1].properties.timestamp,
                         name |-> found[1].properties.tags.name,
                         uri |-> Absent]]

\* the URL map: None (no --url-map), or the dict of the JSON file
NoUrlMap == [none |-> TRUE, items |-> {}]
UrlMap(items) == [none |-> FALSE, items |-> items]

\* url_map.get(uri)
UrlMapGet(url_map, uri) ==
    IF \E p \in url_map.items : p[1] = uri
    THEN (CHOOSE p \in url_map.items : p[1] = uri)[2]
    ELSE Absent

UrlMaps ==
    { NoUrlMap,
      UrlMap({<<"https://osm.org/relation/2", PeerUrl>>}),
      UrlMap({<<"https://osm.org/relation/2", PeerUrl2>>}) }

\* the URL maps `load` is run with
LoadUrlMaps == {NoUrlMap, UrlMap({<<"https://osm.org/relation/2", PeerUrl>>})}

\* str(GUID()): a random identifier, one that no row carries
Guids == {"guid-1", "guid-2"}
GUID(shapes) == Guids \ {r.uri : r \in shapes}

\* a comparison that holds for no stored collection and bare geometry
ST_Equals_never(geometries, g) == FALSE

\* ST_Equals(geometries, ST_SetSRID(ST_GeomFromGeoJSON(g), 4326))
ST_Equals(geometries, g) == geometries = g

\* a store that holds every geometry as often as it is loaded
SelectEquals_none(shapes, geometry) == {}

\* SELECT id FROM shape WHERE ST_Equals(geometries, ...)
SelectEquals(shapes, geometry) ==
    {r \in shapes : ST_Equals(r.geometries, geometry)}

\* the schema's UNIQUE(uri) of shape (the ON CONFLICT(uri) of
\* resolver.py relies on it)
UniqueViolation(shapes, uri) == \E r \in shapes : r.uri = uri

\* INSERT INTO shape (uri, geometries, updated, attrs) ... RETURNING id
InsertShape(shapes, id, uri, geometry) ==
    shapes \cup {[id |-> id, uri |-> uri, geometries |-> geometry]}

\* the value of mapping.shape in a row that names no shape
NULL == 0

\* a loader that adds the peer mapping to the ones the shape has
DeleteLost_none(mappings, shape_id) == mappings

\* DELETE FROM server.mapping WHERE srv='lost' and (shape IS NULL or SHAPE=%s)
DeleteLost(mappings, shape_id) ==
    {m \in mappings :
        ~(m.srv = LOST_SRV /\ (m.shape = NULL \/ m.shape = shape_id))}

\* INSERT INTO server.mapping (shape, srv, attrs) VALUES (%s, 'lost', {'uri': ...})
InsertMapping(mappings, id, shape_id, server_uri) ==
    mappings \cup {[id |-> id, shape |-> shape_id, srv |-> LOST_SRV,
                    updated |-> Now,
                    attrs |-> Attrs(Absent, "str", <<server_uri>>)]}

\* the tables and their id sequences, as update_db finds and leaves them
DB(shapes, mappings, shape_id_seq, mapping_id_seq) ==
    [shape |-> shapes, mapping |-> mappings, shape_id_seq |-> shape_id_seq,
     mapping_id_seq |-> mapping_id_seq, shape_id |-> 0, raised |-> FALSE]

\* update_db(geometry, attrs, url_map) on the store db: the stores it may
\* leave, with the shape_id it worked on; every statement commits on its
\* own (autocommit), so a failed INSERT leaves what was written before it
update_db(db, geometry, attrs, url_map) ==
    { LET insert == previous = NoRow
          shape_uri == IF attrs.uri # Absent THEN attrs.uri ELSE guid
          shape_id == IF insert THEN db.shape_id_seq ELSE previous.id
          shapes == IF insert
                    THEN InsertShape(db.shape, shape_id, shape_uri, geometry)
                    ELSE db.shape
          shape_id_seq == IF insert THEN db.shape_id_seq + 1
                          ELSE db.shape_id_seq
          uri == attrs.uri
          server_uri == UrlMapGet(url_map, uri)
          deleted == DeleteLost(db.mapping, shape_id)
      IN  IF insert /\ UniqueViolation(db.shape, shape_uri)
          THEN [db EXCEPT !.shape_id_seq = shape_id_seq, !.raised = TRUE]
          ELSE IF uri # Absent /\ ~url_map.none
          THEN IF server_uri # Absent
               THEN [shape |-> shapes,
                     mapping |-> InsertMapping(deleted, db.mapping_id_seq,
                                               shape_id, server_uri),
                     shape_id_seq |-> shape_id_seq,
                     mapping_id_seq |-> db.mapping_id_seq + 1,
                     shape_id |-> shape_id, raised |-> FALSE]
               ELSE [shape |-> shapes, mapping |-> deleted,
                     shape_id_seq |-> shape_id_seq,
                     mapping_id_seq |-> db.mapping_id_seq,
                     shape_id |-> shape_id, raised |-> FALSE]
          ELSE [shape |-> shapes, mapping |-> db.mapping,
                shape_id_seq |-> shape_id_seq,
                mapping_id_seq |-> db.mapping_id_seq,
                shape_id |-> shape_id, raised |-> FALSE]
      : previous \in fetchone(SelectEquals(db.shape, geometry)),
        guid \in GUID(db.shape) }

\* what the tables hold, the ids of the rows aside
Content(shapes, mappings) ==
    [shape |-> {[uri |-> r.uri, geometries |-> r.geometries] : r \in shapes},
     mapping |-> {[shape |-> m.shape, srv |-> m.srv, attrs |-> m.attrs] :
                     m \in mappings}]

----------------------------------------------------------------------------
(* The state machine *)

\* no LoSTError was handled
NoError == [type |-> Absent, message |-> Absent]

\* GeographicLoSTServer.check_authority(req): `pass`, and no caller
check_authority(d) == TRUE

NoRequest == [mimetype |-> Absent, data |-> BaseData]

\* LoSTClient.submit has not run on the response
NoOutcome == [kind |-> "none", doc |-> None, type |-> "", message |-> "",
              posts |-> <<>>]

\* the resolver's handler is not running
NoResolver ==
    [pc |-> "idle", data |-> BaseData, server_url |-> Absent,
     visited |-> <<>>, response |-> Reply("none", 0, FALSE, None),
     result |-> Response(0, Absent, None)]

\* no `load` is running, and none has run
NoLoader ==
    [pc |-> "idle", files |-> <<>>, url_map |-> NoUrlMap, pos |-> 0,
     runs |-> 0, calls |-> 0, last |-> FALSE, repeat |-> FALSE,
     before |-> Content({}, {}), shape_id |-> 0, raised |-> FALSE,
     shape_id_seq |-> 1, mapping_id_seq |-> 1,
     call_uri |-> Absent, call_map |-> NoUrlMap]
NoResponse == Response(0, Absent, None)

\* no request is on its way through a federation
NoFederation == [pc |-> "idle"]

\* no request is being served
NoPool == [pc |-> "idle"]

\* no update_db calls run at the same time
NoRace == [pc |-> "idle"]

Init ==
    /\ shape = ShapeRows
    /\ mapping \in {M \in SUBSET MappingRows : Cardinality(M) <= MaxMappings}
    /\ redirect \in BOOLEAN
    /\ authoritative \in {Absent} \cup {s.uri : s \in {t \in ShapeRows : t.id = 2}}
    /\ req = NoRequest
    /\ res = NoResponse
    /\ posts = <<>>
    /\ exc = NoError
    /\ client = NoOutcome
    /\ resolver = NoResolver
    /\ loader = NoLoader
    /\ queries = <<>>
    /\ fed = NoFederation
    /\ pool = NoPool
    /\ race = NoRace

\* a server that forgets the mapping it answered a request from
LostRequest_consuming(r) ==
    \E o \in lost_request(r) :
        /\ req' = r
        /\ res' = Respond(o)
        /\ posts' = o.posts
        /\ exc' = IF o.kind = "raise"
                  THEN [type |-> o.type, message |-> o.message]
                  ELSE NoError
        /\ mapping' = IF o.kind = "return" THEN {} ELSE mapping
        /\ queries' = store_calls(r)
        /\ UNCHANGED <<shape, redirect, authoritative, client, resolver, loader,
                    fed, pool, race>>

\* one POST / handled from the request to the response; the queries of
\* findService and findIntersect are SELECTs
LostRequest(r) ==
    \E o \in lost_request(r) :
        /\ req' = r
        /\ res' = Respond(o)
        /\ posts' = o.posts
        /\ exc' = IF o.kind = "raise"
                  THEN [type |-> o.type, message |-> o.message]
                  ELSE NoError
        /\ queries' = store_calls(r)
        /\ UNCHANGED <<shape, mapping, redirect, authoritative,
                       client, resolver, loader,
                    fed, pool, race>>

Next == \E r \in Requests : LostRequest(r)

Spec == Init /\ [][Next]_vars

\* the messages of the raise statements
Messages == {"No suitable mapping found", "Unsupported SRS name"}

\* lost_error(exc) for an error of any class of errors.py, raised with a
\* message while a request is handled
HandleError(r, class, message) ==
    /\ req' = r
    /\ res' = lost_error(class.type, message)
    /\ posts' = <<>>
    /\ exc' = [type |-> class.type, message |-> message]
    /\ client' = NoOutcome
    /\ queries' = <<>>
    /\ UNCHANGED <<shape, mapping, redirect, authoritative, resolver, loader,
                    fed, pool, race>>

\* a LoSTClient whose POST brought the response: the rest of submit
ClientSubmit ==
    /\ res.status # 0
    /\ client = NoOutcome
    /\ client' = submit(res)
    /\ UNCHANGED <<shape, mapping, redirect, authoritative, req, res, posts,
                   exc, resolver, loader,
                    queries, fed, pool, race>>

ErrNext ==
    \/ \E r \in {BaseReq}, class \in ErrorClasses, message \in Messages :
           HandleError(r, class, message)
    \/ ClientSubmit

ErrSpec == Init /\ [][ErrNext]_vars

\* a POST / reaches the resolver: handler up to its loop
HandlerStart(d) ==
    /\ resolver.pc = "idle"
    /\ resolver' = [NoResolver EXCEPT !.pc = "post", !.data = d,
                                      !.server_url = RootUrl]
    /\ UNCHANGED <<shape, mapping, redirect, authoritative, req, res, posts,
                   exc, client, loader,
                    queries, fed, pool, race>>

\* one iteration of the handler's loop
HandlerPost ==
    /\ resolver.pc = "post"
    /\ Len(resolver.visited) < MaxHops
    /\ \E reply \in ResolverReplies :
           resolver' = handler_step(resolver, reply)
    /\ UNCHANGED <<shape, mapping, redirect, authoritative, req, res, posts,
                   exc, client, loader,
                    queries, fed, pool, race>>

\* the LoSTClient that sent the request through findService (seeker.py)
\* receives the handler's response
SeekerReceive ==
    /\ resolver.pc = "done"
    /\ client = NoOutcome
    /\ client' = LoSTClient_findService(resolver.result)
    /\ UNCHANGED <<shape, mapping, redirect, authoritative, req, res, posts,
                   exc, resolver, loader,
                    queries, fed, pool, race>>

ResolverInit ==
    /\ shape = ShapeRows
    /\ mapping = {}
    /\ redirect = TRUE
    /\ authoritative = Absent
    /\ req = NoRequest
    /\ res = NoResponse
    /\ posts = <<>>
    /\ exc = NoError
    /\ client = NoOutcome
    /\ resolver = NoResolver
    /\ loader = NoLoader
    /\ queries = <<>>
    /\ fed = NoFederation
    /\ pool = NoPool
    /\ race = NoRace

ResolverNext ==
    \/ \E d \in ResolverRequests : HandlerStart(d)
    \/ HandlerPost
    \/ SeekerReceive

ResolverSpec == ResolverInit /\ [][ResolverNext]_vars

\* the file lists a glob pattern may match
FileLists ==
    {<<f>> : f \in GeoJSONFiles}
    \cup {<<f, g>> : f \in GeoJSONFiles, g \in GeoJSONFiles}

\* the attrs update_db may be called with besides those of
\* extract_boundary: attrs that carry a uri
UpdateAttrs ==
    {[id |-> "2", timestamp |-> "2024-01-01T00:00:00Z", name |-> "Region B",
      uri |-> u] :
        u \in {"https://osm.org/relation/2", "https://osm.org/relation/3"}}

UpdateGeometries == {{<<0, 1>>}, {<<1, 0>>, <<1, 1>>}}

\* the store as the loader finds it
LoaderDB == DB(shape, mapping, loader.shape_id_seq, loader.mapping_id_seq)

\* `load` up to its loop, on the files the pattern matches and the URL map
\* of the JSON file
LoadStart ==
    /\ loader.pc = "idle"
    /\ loader.runs < MaxRuns
    /\ loader' = [loader EXCEPT !.pc = "run", !.pos = 1,
                                !.repeat = loader.last,
                                !.before = Content(shape, mapping),
                                !.shape_id = 0, !.raised = FALSE]
    /\ UNCHANGED <<shape, mapping, redirect, authoritative, req, res, posts,
                   exc, client, resolver,
                    queries, fed, pool, race>>

\* one iteration of the loop of `load`: extract_boundary and update_db on
\* the next file; an exception ends the run
LoadFile ==
    /\ loader.pc = "run"
    /\ LET b == extract_boundary(loader.files[loader.pos])
           ended(raised) ==
               [loader EXCEPT !.pc = "idle", !.runs = @ + 1, !.last = TRUE,
                              !.raised = raised]
       IN  IF b.kind = "exception"
           THEN /\ loader' = [ended(TRUE) EXCEPT !.shape_id = 0]
                /\ UNCHANGED <<shape, mapping>>
           ELSE \E d \in update_db(LoaderDB, b.geometry, b.attrs,
                                    loader.url_map) :
                    /\ shape' = d.shape
                    /\ mapping' = d.mapping
                    /\ loader' =
                           [(IF d.raised \/ loader.pos = Len(loader.files)
                             THEN ended(d.raised)
                             ELSE [loader EXCEPT !.pos = @ + 1])
                            EXCEPT !.shape_id = d.shape_id,
                                   !.shape_id_seq = d.shape_id_seq,
                                   !.mapping_id_seq = d.mapping_id_seq,
                                   !.call_uri = b.attrs.uri,
                                   !.call_map = loader.url_map]
    /\ UNCHANGED <<redirect, authoritative, req, res, posts, exc, client,
                   resolver,
                    queries, fed, pool, race>>

\* update_db called on its own, between the runs of `load`
UpdateDb(geometry, attrs, url_map) ==
    /\ loader.pc = "idle"
    /\ loader.calls < MaxCalls
    /\ \E d \in update_db(LoaderDB, geometry, attrs, url_map) :
           /\ shape' = d.shape
           /\ mapping' = d.mapping
           /\ loader' = [loader EXCEPT !.calls = @ + 1, !.last = FALSE,
                                       !.repeat = FALSE,
                                       !.before = Content({}, {}),
                                       !.pos = 0,
                                       !.shape_id = d.shape_id,
                                       !.raised = d.raised,
                                       !.shape_id_seq = d.shape_id_seq,
                                       !.mapping_id_seq = d.mapping_id_seq,
                                       !.call_uri = attrs.uri,
                                       !.call_map = url_map]
    /\ UNCHANGED <<redirect, authoritative, req, res, posts, exc, client,
                   resolver,
                    queries, fed, pool, race>>

\* the loader starts on an empty store, or on shapes and a mapping that
\* were put there before; the files and the URL map are those on disk
LoadInit ==
    /\ \E files \in FileLists, url_map \in LoadUrlMaps :
          \/ /\ shape = {}
             /\ mapping = {}
             /\ loader = [NoLoader EXCEPT !.files = files,
                                          !.url_map = url_map]
          \/ /\ shape = ShapeRows
             /\ mapping \in {M \in SUBSET MappingRows : Cardinality(M) <= 1}
             /\ loader = [NoLoader EXCEPT !.files = files,
                                          !.url_map = url_map,
                                          !.shape_id_seq = 3,
                                          !.mapping_id_seq = 8]
    /\ redirect = FALSE
    /\ authoritative = Absent
    /\ req = NoRequest
    /\ res = NoResponse
    /\ posts = <<>>
    /\ exc = NoError
    /\ client = NoOutcome
    /\ resolver = NoResolver
    /\ queries = <<>>
    /\ fed = NoFederation
    /\ pool = NoPool
    /\ race = NoRace

LoadNext ==
    \/ LoadStart
    \/ LoadFile
    \/ \E geometry \in UpdateGeometries, attrs \in UpdateAttrs,
          url_map \in UrlMaps : UpdateDb(geometry, attrs, url_map)

LoadSpec == LoadInit /\ [][LoadNext]_vars

----------------------------------------------------------------------------
(* A federation: servers started in proxy mode, each with its own store,
   that forward requests to each other with proxy_request.  While a
   server handles the request, `mapping` is its store. *)

\* the URLs the servers of the federation listen on
FedUrls == {PeerUrl, PeerUrl2}

\* the rows the store of the server at u is drawn from: leaf rows with a
\* list of service URIs, and srv='lost' rows that point at another
\* server of the federation
FedRows(u) ==
    { m \in MappingRows :
        IF NonLeaf(m) THEN m.attrs.uri.val[1] \in FedUrls \ {u}
        ELSE m.attrs.uri.kind = "list" }

\* the stores of the servers
FedStores ==
    { st \in [FedUrls -> SUBSET MappingRows] :
        \A u \in FedUrls : /\ st[u] \subseteq FedRows(u)
                            /\ Cardinality(st[u]) <= MaxMappings }

\* the recursive findService requests of a client of the federation
FedRequests ==
    { [BaseReq EXCEPT !.data.service = srv, !.data.pos = <<lat, lon>>] :
        srv \in Services, lat \in Coords, lon \in Coords }

\* a client POSTs r to the server at u
FedSend(r, u) ==
    /\ fed.pc = "idle"
    /\ fed' = [fed EXCEPT !.pc = "call", !.chain = <<u>>, !.visited = <<u>>,
                           !.req = r]
    /\ mapping' = fed.stores[u]
    /\ UNCHANGED <<shape, redirect, authoritative, req, res, posts, exc,
                   client, resolver, loader, queries, pool, race>>

\* the server the request has reached handles it up to requests.post in
\* proxy_request, which sends the request on to the next server
FedForward ==
    /\ fed.pc = "call"
    /\ Len(fed.chain) < MaxDepth
    /\ \E o \in lost_request(fed.req) :
          /\ o.posts # <<>>
          /\ o.posts[1].url \in FedUrls
          /\ fed' = [fed EXCEPT !.chain = Append(@, o.posts[1].url),
                                 !.visited = Append(@, o.posts[1].url),
                                 !.req = [mimetype |-> LOST_MIME_TYPE,
                                          data |-> o.posts[1].data]]
          /\ mapping' = fed.stores[o.posts[1].url]
    /\ UNCHANGED <<shape, redirect, authoritative, req, res, posts, exc,
                   client, resolver, loader, queries, pool, race>>

\* the server the request has reached answers it without a peer
FedAnswer ==
    /\ fed.pc = "call"
    /\ \E o \in lost_request(fed.req) :
          /\ o.posts = <<>>
          /\ fed' = [fed EXCEPT !.pc = "return", !.resp = Respond(o)]
    /\ UNCHANGED <<shape, mapping, redirect, authoritative, req, res, posts,
                   exc, client, resolver, loader, queries, pool, race>>

\* the response travels one server back: requests.post returns in
\* proxy_request of the server that forwarded, which answers its own
\* caller; the first server answers the client
FedReturn ==
    /\ fed.pc = "return"
    /\ IF Len(fed.chain) = 1
       THEN /\ fed' = [fed EXCEPT !.pc = "done"]
            /\ res' = fed.resp
            /\ req' = fed.req
            /\ UNCHANGED mapping
       ELSE LET caller == fed.chain[Len(fed.chain) - 1]
                reply == IF fed.resp.status = 200
                         THEN Reply("response", 200, TRUE, fed.resp.body)
                         ELSE Reply("response", fed.resp.status, FALSE, None)
            IN  /\ fed' = [fed EXCEPT
                             !.chain = SubSeq(@, 1, Len(@) - 1),
                             !.resp = Respond(Return(ProxyResult(reply), <<>>))]
                /\ mapping' = fed.stores[caller]
                /\ UNCHANGED <<req, res>>
    /\ UNCHANGED <<shape, redirect, authoritative, posts, exc, client,
                   resolver, loader, queries, pool, race>>

FedInit ==
    /\ shape = ShapeRows
    /\ mapping = {}
    /\ redirect = FALSE
    /\ authoritative = Absent
    /\ req = NoRequest
    /\ res = NoResponse
    /\ posts = <<>>
    /\ exc = NoError
    /\ client = NoOutcome
    /\ resolver = NoResolver
    /\ loader = NoLoader
    /\ queries = <<>>
    /\ \E st \in FedStores :
          fed = [pc |-> "idle", chain |-> <<>>, visited |-> <<>>,
                 req |-> NoRequest, resp |-> NoResponse, stores |-> st]
    /\ pool = NoPool
    /\ race = NoRace

FedNext ==
    \/ \E r \in FedRequests, u \in FedUrls : FedSend(r, u)
    \/ FedForward
    \/ FedAnswer
    \/ FedReturn

FedSpec == FedInit /\ [][FedNext]_vars

----------------------------------------------------------------------------
(* The connection pool: app.run(threaded=True) serves each request in a
   thread of its own, and every store call of a request is made inside
   `with self.db.connection() as con:` on the pool of db.init *)

Threads == 1..MaxThreads

\* requests with no, one and two store calls, and one whose query raises
\* inside the with block (ST_GeomFromGML of a position of one token)
PoolRequests ==
    { BaseReq,
      [BaseReq EXCEPT !.data.service = LOST_SRV],
      [BaseReq EXCEPT !.data.type_ = "findIntersect"],
      [BaseReq EXCEPT !.data.type_ = "findIntersect", !.data.pos = <<0>>],
      [BaseReq EXCEPT !.data.srsName = Absent] }

\* con.execute raises inside the with block
QueryRaises(r) ==
    /\ r.data.type_ = "findIntersect"
    /\ r.data.geomTag = "Point"
    /\ Len(r.data.pos) # 2

\* a thread that serves no request
NoThread == [pc |-> "idle", req |-> NoRequest, todo |-> <<>>, kind |-> "none"]

\* a pool whose __exit__ keeps the connection when the block raised
putconn_unlessRaised(out, t, raised) == IF raised THEN out ELSE out \ {t}

\* __exit__ of `with self.db.connection()`: the connection goes back to
\* the pool, whether the block raised or not
putconn(out, t, raised) == out \ {t}

\* Flask starts a thread for the request r
PoolRequest(t, r) ==
    /\ pool.thr[t].pc = "idle"
    /\ pool' = [pool EXCEPT !.thr[t] =
                   [pc |-> "run", req |-> r, todo |-> store_calls(r),
                    kind |-> "none"]]
    /\ UNCHANGED <<shape, mapping, redirect, authoritative, req, res, posts,
                   exc, client, resolver, loader, queries, fed, race>>

\* __enter__ of `with self.db.connection()`: the thread takes a
\* connection once the pool has one to give
PoolEnter(t) ==
    /\ pool.thr[t].pc = "run"
    /\ pool.thr[t].todo # <<>>
    /\ Cardinality(pool.out) < pool.max_con
    /\ pool' = [pool EXCEPT !.thr[t].pc = "with", !.out = @ \cup {t}]
    /\ UNCHANGED <<shape, mapping, redirect, authoritative, req, res, posts,
                   exc, client, resolver, loader, queries, fed, race>>

\* con.execute and the end of the with block
PoolExit(t) ==
    /\ pool.thr[t].pc = "with"
    /\ LET raised == QueryRaises(pool.thr[t].req)
       IN  pool' = [pool EXCEPT
                      !.thr[t].pc = "run",
                      !.thr[t].todo = IF raised THEN <<>> ELSE Tail(@),
                      !.out = putconn(@, t, raised)]
    /\ UNCHANGED <<shape, mapping, redirect, authoritative, req, res, posts,
                   exc, client, resolver, loader, queries, fed, race>>

\* the rest of the request after its last store call: the peer POST of
\* proxy_request, the response or the error
PoolRespond(t) ==
    /\ pool.thr[t].pc = "run"
    /\ pool.thr[t].todo = <<>>
    /\ \E o \in lost_request(pool.thr[t].req) :
          /\ pool' = [pool EXCEPT !.thr[t].pc = "done", !.thr[t].kind = o.kind]
          /\ req' = pool.thr[t].req
          /\ res' = Respond(o)
          /\ posts' = o.posts
    /\ UNCHANGED <<shape, mapping, redirect, authoritative, exc, client,
                   resolver, loader, queries, fed, race>>

PoolInit ==
    /\ shape = ShapeRows
    /\ mapping \in {{m} : m \in {n \in MappingRows : n.shape = 1}}
    /\ redirect = FALSE
    /\ authoritative = Absent
    /\ req = NoRequest
    /\ res = NoResponse
    /\ posts = <<>>
    /\ exc = NoError
    /\ client = NoOutcome
    /\ resolver = NoResolver
    /\ loader = NoLoader
    /\ queries = <<>>
    /\ fed = NoFederation
    /\ pool = [pc |-> "serving", max_con |-> MaxCon, out |-> {},
               thr |-> [t \in Threads |-> NoThread]]
    /\ race = NoRace

PoolNext ==
    \E t \in Threads :
        \/ \E r \in PoolRequests : PoolRequest(t, r)
        \/ PoolEnter(t)
        \/ PoolExit(t)
        \/ PoolRespond(t)

PoolSpec == PoolInit /\ [][PoolNext]_vars

----------------------------------------------------------------------------
(* update_db of the loader and of the publisher called by two processes
   at the same time: the connections are in autocommit mode, so every
   statement of a call is a transaction of its own *)

Racers == {1, 2}

\* the attrs of a call: those extract_boundary makes (no uri) and those
\* with a uri
RaceAttrs ==
    {[id |-> "2", timestamp |-> "2024-01-01T00:00:00Z", name |-> "Region B",
      uri |-> u] : u \in {Absent, "https://osm.org/relation/2"}}

\* a process that is not in update_db
NoCall ==
    [pc |-> "idle", publisher |-> FALSE, geometry |-> {},
     attrs |-> [id |-> Absent, timestamp |-> Absent, name |-> Absent,
                uri |-> Absent],
     url_map |-> NoUrlMap, shape_id |-> 0, raised |-> FALSE]

\* what follows the shape part of update_db: the publisher returns the
\* shape_id, the loader goes on to the mappings when it has a uri and a
\* URL map
AfterShape(c) ==
    IF ~c.publisher /\ c.attrs.uri # Absent /\ ~c.url_map.none
    THEN "delete" ELSE "done"

\* a process calls update_db (server.py) or LoSTPublisher.update_db
RaceCall(p, publisher, geometry, attrs, url_map) ==
    /\ race.proc[p].pc = "idle"
    /\ publisher => url_map = NoUrlMap
    /\ race' = [race EXCEPT !.proc[p] =
                   [NoCall EXCEPT !.pc = "select", !.publisher = publisher,
                                  !.geometry = geometry, !.attrs = attrs,
                                  !.url_map = url_map]]
    /\ UNCHANGED <<shape, mapping, redirect, authoritative, req, res, posts,
                   exc, client, resolver, loader, queries, fed, pool>>

\* SELECT id FROM shape WHERE ST_Equals(...) and previous = cur.fetchone()
RaceSelect(p) ==
    /\ race.proc[p].pc = "select"
    /\ \E previous \in fetchone(SelectEquals(shape, race.proc[p].geometry)) :
          race' = [race EXCEPT
                     !.proc[p].pc = IF previous = NoRow THEN "insert"
                                    ELSE AfterShape(race.proc[p]),
                     !.proc[p].shape_id = IF previous = NoRow THEN 0
                                          ELSE previous.id]
    /\ UNCHANGED <<shape, mapping, redirect, authoritative, req, res, posts,
                   exc, client, resolver, loader, queries, fed, pool>>

\* INSERT INTO shape ... RETURNING id, when previous was None
RaceInsertShape(p) ==
    /\ race.proc[p].pc = "insert"
    /\ \E guid \in GUID(shape) :
          LET c == race.proc[p]
              uri == IF c.attrs.uri # Absent THEN c.attrs.uri ELSE guid
          IN  IF UniqueViolation(shape, uri)
              THEN /\ race' = [race EXCEPT !.proc[p].pc = "done",
                                           !.proc[p].raised = TRUE,
                                           !.shape_id_seq = @ + 1]
                   /\ UNCHANGED shape
              ELSE /\ shape' = InsertShape(shape, race.shape_id_seq, uri,
                                          c.geometry)
                   /\ race' = [race EXCEPT !.proc[p].pc = AfterShape(c),
                                           !.proc[p].shape_id = race.shape_id_seq,
                                           !.shape_id_seq = @ + 1]
    /\ UNCHANGED <<mapping, redirect, authoritative, req, res, posts,
                   exc, client, resolver, loader, queries, fed, pool>>

\* DELETE FROM server.mapping WHERE srv='lost' and (shape IS NULL or SHAPE=%s)
RaceDelete(p) ==
    /\ race.proc[p].pc = "delete"
    /\ mapping' = DeleteLost(mapping, race.proc[p].shape_id)
    /\ race' = [race EXCEPT !.proc[p].pc =
                   IF UrlMapGet(race.proc[p].url_map, race.proc[p].attrs.uri)
                      # Absent
                   THEN "insert_mapping" ELSE "done"]
    /\ UNCHANGED <<shape, redirect, authoritative, req, res, posts,
                   exc, client, resolver, loader, queries, fed, pool>>

\* INSERT INTO server.mapping (shape, srv, attrs), when server_uri is not None
RaceInsertMapping(p) ==
    /\ race.proc[p].pc = "insert_mapping"
    /\ mapping' = InsertMapping(mapping, race.mapping_id_seq,
                                race.proc[p].shape_id,
                                UrlMapGet(race.proc[p].url_map,
                                          race.proc[p].attrs.uri))
    /\ race' = [race EXCEPT !.proc[p].pc = "done", !.mapping_id_seq = @ + 1]
    /\ UNCHANGED <<shape, redirect, authoritative, req, res, posts,
                   exc, client, resolver, loader, queries, fed, pool>>

\* the processes start on an empty store, or on shapes and a peer mapping
\* that were put there before
RaceInit ==
    /\ \/ /\ shape = {}
          /\ mapping = {}
          /\ race = [pc |-> "racing", proc |-> [p \in Racers |-> NoCall],
                     shape_id_seq |-> 1, mapping_id_seq |-> 1]
       \/ /\ shape = ShapeRows
          /\ mapping \in {{}, {m \in MappingRows : m.id = 4}}
          /\ race = [pc |-> "racing", proc |-> [p \in Racers |-> NoCall],
                     shape_id_seq |-> 3, mapping_id_seq |-> 8]
    /\ redirect = FALSE
    /\ authoritative = Absent
    /\ req = NoRequest
    /\ res = NoResponse
    /\ posts = <<>>
    /\ exc = NoError
    /\ client = NoOutcome
    /\ resolver = NoResolver
    /\ loader = NoLoader
    /\ queries = <<>>
    /\ fed = NoFederation
    /\ pool = NoPool

RaceNext ==
    \E p \in Racers :
        \/ \E publisher \in BOOLEAN, geometry \in UpdateGeometries,
              attrs \in RaceAttrs, url_map \in LoadUrlMaps :
                RaceCall(p, publisher, geometry, attrs, url_map)
        \/ RaceSelect(p)
        \/ RaceInsertShape(p)
        \/ RaceDelete(p)
        \/ RaceInsertMapping(p)

RaceSpec == RaceInit /\ [][RaceNext]_vars

----------------------------------------------------------------------------
(* Vocabulary of the properties *)

\* a request has been handled
Handled == res.status # 0

\* the last request passed the transport and codec checks and names a
\* supported operation
SupportedRequest ==
    /\ Handled
    /\ req.mimetype = LOST_MIME_TYPE
    /\ req.data.wellformed
    /\ req.data.ns = LOST_NAMESPACE
    /\ req.data.type_ \in {"findService", "findIntersect"}

\* the last request is a findService of the geodetic-2d profile with a
\* Point in the accepted SRS
PointFindService ==
    /\ SupportedRequest
    /\ req.data.type_ = "findService"
    /\ req.data.profile = "geodetic-2d"
    /\ req.data.srsName = SRS_URN
    /\ req.data.geomTag = "Point"
    /\ Len(req.data.pos) = 2

\* the point of the request, in lon lat order
ReqPoint == <<req.data.pos[2], req.data.pos[1]>>

\* the mappings of the requested service whose shape contains the point
Matches ==
    { m \in mapping : /\ m.srv = req.data.service
                      /\ \E s \in shape : s.id = m.shape /\ ReqPoint \in s.geometries }

\* the point lies in no stored shape
OutsideEveryShape == \A s \in shape : ReqPoint \notin s.geometries

\* the entries of attrs.uri
Entries(uri) == IF uri.kind = "none" THEN <<>> ELSE uri.val

\* the texts of the <uri> children of a mapping element
UriTexts(m) ==
    LET us == Children(m, "uri") IN [i \in DOMAIN us |-> us[i].text]

\* the body is <errors> with the single child kind
IsErrors(body, kind) ==
    /\ body.ns = LOST_NAMESPACE
    /\ body.tag = "errors"
    /\ Len(body.children) = 1
    /\ body.children[1].tag = kind

\* the body is one of the documents that answer a request successfully
IsAnswer(body) ==
    /\ body.ns = LOST_NAMESPACE
    /\ body.tag \in {"findServiceResponse", "findIntersectResponse", "redirect"}

\* the peer answered the forwarded request with a document of this root
PeerAnswered(tag) ==
    /\ Len(posts) = 1
    /\ posts[1].reply.kind = "response"
    /\ posts[1].reply.status = 200
    /\ posts[1].reply.wellformed
    /\ posts[1].reply.doc.ns = LOST_NAMESPACE
    /\ posts[1].reply.doc.tag = tag

----------------------------------------------------------------------------
(* Properties *)

\* C1: a findService whose point lies in a shape with a leaf mapping of
\* the requested service is answered with a findServiceResponse holding
\* one mapping whose uri children are the entries of that mapping's
\* attrs.uri, without a redirect and without a peer POST.
C1_LeafHitIsAnswered ==
    (PointFindService /\ \E m \in Matches : ~NonLeaf(m) /\ m.attrs.uri.kind # "none")
    => /\ res.status = 200
       /\ res.body.ns = LOST_NAMESPACE
       /\ res.body.tag = "findServiceResponse"
       /\ Len(Children(res.body, "mapping")) = 1
       /\ \E m \in Matches :
             /\ ~NonLeaf(m)
             /\ UriTexts(Children(res.body, "mapping")[1]) = Entries(m.attrs.uri)
       /\ posts = <<>>

\* C2: a findService whose point lies outside every stored shape is
\* answered with <errors> whose single child is notFound.
C2_OutsideIsNotFound ==
    (PointFindService /\ OutsideEveryShape)
    => res.status = 200 /\ IsErrors(res.body, "notFound")

\* C3: a findService with recursive=false that matches a non-leaf mapping
\* is answered with <redirect> with a non-empty target and no peer POST,
\* in proxy mode too.
C3_NonRecursiveIsRedirected ==
    (PointFindService /\ ~req.data.recursive /\ \E m \in Matches : NonLeaf(m))
    => /\ res.status = 200
       /\ res.body.ns = LOST_NAMESPACE
       /\ res.body.tag = "redirect"
       /\ Attr(res.body, "target") \notin {Absent, ""}
       /\ posts = <<>>

\* C4: a server in redirect mode issues no peer POST for any request, and
\* answers every findService that matches a non-leaf mapping with
\* <redirect>, whatever the request's recursive flag.
C4_RedirectModeNeverProxies ==
    redirect
    => /\ posts = <<>>
       /\ (PointFindService /\ \E m \in Matches : NonLeaf(m))
          => /\ res.status = 200
             /\ res.body.ns = LOST_NAMESPACE
             /\ res.body.tag = "redirect"

\* C4 witness: a redirect-mode server answered a recursive findService
\* that matched a non-leaf mapping
C4_Witness ==
    /\ redirect
    /\ PointFindService
    /\ req.data.recursive
    /\ \E m \in Matches : NonLeaf(m)
    /\ res.body.tag = "redirect"

\* C5 as stated: every <redirect> in a response of the server has the
\* matched mapping's attrs.uri as target, server_id as source, and no
\* <path>.
C5_EveryRedirectIsOwn ==
    (Handled /\ res.body.tag = "redirect")
    => /\ \E m \in Matches : m.attrs.uri.kind = "str"
                             /\ Attr(res.body, "target") = m.attrs.uri.val[1]
       /\ Attr(res.body, "source") = server_id
       /\ Children(res.body, "path") = <<>>

\* C5 amended: every <redirect> the server answers with that is not the
\* relayed reply of a peer has the matched mapping's attrs.uri as target,
\* server_id as source, and no <path>.
C5_BuiltRedirect ==
    (Handled /\ res.body.tag = "redirect" /\ posts = <<>>)
    => /\ PointFindService
       /\ \E m \in Matches : m.attrs.uri.kind = "str"
                             /\ Attr(res.body, "target") = m.attrs.uri.val[1]
       /\ Attr(res.body, "source") = server_id
       /\ Children(res.body, "path") = <<>>

\* C5 witness: the server built a redirect
C5_Witness ==
    /\ Handled
    /\ posts = <<>>
    /\ res.body.tag = "redirect"
    /\ Attr(res.body, "target") = PeerUrl

\* C6: a request whose <path> holds the server's own server_id is
\* answered with <errors> whose child is loop and is not forwarded.
C6_OwnIdInPathIsLoop ==
    (PointFindService /\ ~redirect /\ Matches # {}
     /\ \E i \in DOMAIN req.data.path : req.data.path[i] = server_id)
    => /\ res.status = 200
       /\ IsErrors(res.body, "loop")
       /\ posts = <<>>

\* C7: on a proxy-mode server a recursive findService that matches a
\* non-leaf mapping is forwarded to the mapping's attrs.uri, the peer's
\* findServiceResponse mapping is returned, and the response path lists
\* the server's own entry before the peer's.
C7_ProxyPrependsOwnVia ==
    (PointFindService /\ req.data.recursive /\ ~redirect
     /\ (\E m \in Matches : NonLeaf(m))
     /\ PeerAnswered("findServiceResponse"))
    => /\ \E m \in Matches : NonLeaf(m) /\ posts[1].url = m.attrs.uri.val[1]
       /\ res.status = 200
       /\ res.body.tag = "findServiceResponse"
       /\ Children(res.body, "mapping") = Children(posts[1].reply.doc, "mapping")
       /\ PathOf(res.body) = <<server_id>> \o PathOf(posts[1].reply.doc)

\* C8: every failure of a POST / is delivered as HTTP 200 with the LoST
\* content type and an <errors> body with one child that carries message
\* and source=server_id.
C8_FailuresAre200Errors ==
    Handled
    => /\ res.status = 200
       /\ res.mimetype = LOST_MIME_TYPE
       /\ \/ IsAnswer(res.body)
          \/ /\ res.body.ns = LOST_NAMESPACE
             /\ res.body.tag = "errors"
             /\ Len(res.body.children) = 1
             /\ Attr(res.body.children[1], "message") # Absent
             /\ Attr(res.body.children[1], "source") = server_id

\* C9: the response to a request in the LoST namespace for a supported
\* operation has its root in the LoST namespace, relayed peer replies
\* included (stated for the responses that carry a document).
C9_ResponseRootIsLoST ==
    (SupportedRequest /\ res.status = 200) => res.body.ns = LOST_NAMESPACE

\* C10: when the peer answers the forwarded request with <errors>, the
\* server answers with <errors> of the same kind whose source is its own
\* server_id.
C10_PeerErrorsAreResourced ==
    PeerAnswered("errors")
    => /\ res.status = 200
       /\ res.body.tag = "errors"
       /\ Len(res.body.children) = 1
       /\ res.body.children[1].tag = posts[1].reply.doc.children[1].tag
       /\ Attr(res.body.children[1], "source") = server_id

\* the request reached the geodetic-2d server: codec checks passed, the
\* operation is supported and the profile has a handler
DispatchedRequest ==
    /\ SupportedRequest
    /\ req.data.profile \in lost_server

\* the geometry of the request in lon lat order (a Point needs two tokens)
ReqGeometry ==
    IF req.data.geomTag = "Point" THEN {ReqPoint}
    ELSE {<<c[2], c[1]>> : c \in req.data.cells}

\* the names of the attributes of an element
AttrNames(e) == {a[1] : a \in e.attrs}

\* C11: when the peer's reply to the forwarded request is unparseable or
\* has a root outside the LoST namespace, the server answers <errors>
\* with the child serverError.
C11_BadPeerReplyIsServerError ==
    (/\ Len(posts) = 1
     /\ posts[1].reply.kind = "response"
     /\ posts[1].reply.status = 200
     /\ (~posts[1].reply.wellformed \/ posts[1].reply.doc.ns # LOST_NAMESPACE))
    => res.status = 200 /\ IsErrors(res.body, "serverError")

\* C12: a findService or findIntersect whose profile has no registered
\* handler is answered with <errors> whose child is
\* locationProfileUnrecognized.
C12_UnknownProfile ==
    (SupportedRequest /\ req.data.profile \notin lost_server)
    => res.status = 200 /\ IsErrors(res.body, "locationProfileUnrecognized")

\* C12 witness: a findIntersect of the civic profile was refused
C12_Witness ==
    /\ SupportedRequest
    /\ req.data.type_ = "findIntersect"
    /\ req.data.profile = "civic"
    /\ IsErrors(res.body, "locationProfileUnrecognized")

\* C13: a findService or findIntersect whose geometry has an srsName
\* other than the accepted SRS URN, or none, is answered with <errors>
\* whose child is SRSInvalid, for every geometry type and every store.
C13_WrongSRS ==
    (DispatchedRequest /\ req.data.srsName # SRS_URN)
    => res.status = 200 /\ IsErrors(res.body, "SRSInvalid")

\* C13 witness: a findIntersect with a Polygon without srsName was
\* refused by a server whose store has mappings
C13_Witness ==
    /\ DispatchedRequest
    /\ req.data.type_ = "findIntersect"
    /\ req.data.geomTag = "Polygon"
    /\ req.data.srsName = Absent
    /\ mapping # {}
    /\ IsErrors(res.body, "SRSInvalid")

\* C14: for findService and findIntersect a geometry of type Point,
\* Polygon or MultiPolygon is accepted, and every other type fails with
\* geometryNotImplemented.
C14_GeometryTypes ==
    (DispatchedRequest /\ req.data.srsName = SRS_URN)
    => (IsErrors(res.body, "geometryNotImplemented")
        <=> req.data.geomTag \notin {"Point", "Polygon", "MultiPolygon"})

\* C15: a server with an authoritative shape URI answers a request whose
\* geometry does not intersect that shape with <errors> whose child is
\* notAuthoritative, without a result of the lookup; a server without an
\* authoritative URI never answers notAuthoritative.
C15_AuthorityIsChecked ==
    /\ (/\ authoritative # Absent
        /\ DispatchedRequest
        /\ req.data.srsName = SRS_URN
        /\ req.data.geomTag = "Point" => Len(req.data.pos) = 2
        /\ \A s \in shape :
              s.uri = authoritative => ~ST_Intersects(s.geometries, ReqGeometry))
       => /\ res.status = 200
          /\ IsErrors(res.body, "notAuthoritative")
          /\ posts = <<>>
    /\ authoritative = Absent => ~IsErrors(res.body, "notAuthoritative")

\* C16: a findService whose Point has a latitude outside [-90, 90] or a
\* longitude outside [-180, 180] is answered with <errors> whose child is
\* locationInvalid.
C16_OutOfRangeIsLocationInvalid ==
    (/\ PointFindService
     /\ \/ req.data.pos[1] \notin -90..90
        \/ req.data.pos[2] \notin -180..180)
    => res.status = 200 /\ IsErrors(res.body, "locationInvalid")

\* C17: a POST / whose content type is not application/lost+xml, whose
\* body is not well-formed XML, or whose root is not in the LoST
\* namespace is answered with <errors> whose child is badRequest.
C17_CodecRejects ==
    (/\ Handled
     /\ \/ req.mimetype # LOST_MIME_TYPE
        \/ ~req.data.wellformed
        \/ req.data.ns # LOST_NAMESPACE)
    => res.status = 200 /\ IsErrors(res.body, "badRequest")

\* C17 witness: a request with another content type was refused
C17_Witness ==
    /\ Handled
    /\ req.mimetype = "text/xml"
    /\ IsErrors(res.body, "badRequest")

\* C18: a request in the LoST namespace whose root is none of
\* findService, findIntersect, getServiceBoundary, listServices,
\* listServicesByLocation is answered with <errors> whose child is
\* badRequest.
C18_UnknownOperation ==
    (/\ Handled
     /\ req.mimetype = LOST_MIME_TYPE
     /\ req.data.wellformed
     /\ req.data.ns = LOST_NAMESPACE
     /\ req.data.type_ \notin {"findService", "findIntersect", "getServiceBoundary",
                              "listServices", "listServicesByLocation"})
    => res.status = 200 /\ IsErrors(res.body, "badRequest")

\* C19: getServiceBoundary, listServices and listServicesByLocation are
\* each answered with <errors> whose child is notImplemented.
C19_UnsupportedOperations ==
    (/\ Handled
     /\ req.mimetype = LOST_MIME_TYPE
     /\ req.data.wellformed
     /\ req.data.ns = LOST_NAMESPACE
     /\ req.data.type_ \in {"getServiceBoundary", "listServices",
                           "listServicesByLocation"})
    => res.status = 200 /\ IsErrors(res.body, "notImplemented")

\* C20: the serialized error of every error kind is an <errors> root with
\* exactly one child, whose local name is the kind and whose attributes
\* are message, source and xml:lang="en".
C20_ErrorEnvelope ==
    exc # NoError
    => /\ res.status = 200
       /\ res.mimetype = LOST_MIME_TYPE
       /\ IsErrors(res.body, exc.type)
       /\ AttrNames(res.body.children[1]) = {"message", "source", "xml:lang"}
       /\ Attr(res.body.children[1], "message") = exc.message
       /\ Attr(res.body.children[1], "source") = server_id
       /\ Attr(res.body.children[1], "xml:lang") = "en"
       /\ res.body.children[1].children = <<>>

\* C20 witness: an error of a kind whose class does not derive from
\* LoSTError directly was serialized
C20_Witness ==
    /\ exc.type = "geometryNotImplemented"
    /\ IsErrors(res.body, "geometryNotImplemented")

\* C21: a client that receives the <errors> document the server serialized
\* for an error raises the error of the same kind, with the same message,
\* whatever the kind
C21_ErrorRoundTrip ==
    (exc # NoError /\ client # NoOutcome) =>
        /\ client.kind = "raise"
        /\ client.type = exc.type
        /\ client.message = exc.message

\* C22: a resolution that ends on a <redirect> of a server has visited the
\* target of that redirect (it follows each redirect until a target was
\* already visited or the hop limit is reached), and no server is asked
\* twice
C22_RedirectsFollowed ==
    /\ (/\ resolver.pc = "done"
        /\ resolver.response.kind = "response"
        /\ resolver.response.status = 200
        /\ resolver.response.wellformed
        /\ resolver.response.doc.ns = LOST_NAMESPACE
        /\ resolver.response.doc.tag = "redirect"
        /\ Len(resolver.visited) < MaxHops)
       => \E i \in DOMAIN resolver.visited :
              resolver.visited[i] = Attr(resolver.response.doc, "target")
    /\ \A i, j \in DOMAIN resolver.visited :
           i # j => resolver.visited[i] # resolver.visited[j]

\* C23: when `load` is run again on the same files with the same URL map,
\* the shape table and the mapping table hold after the second run what
\* they held after the first
C23_LoadIsIdempotent ==
    (loader.pc = "idle" /\ loader.repeat) =>
        Content(shape, mapping) = loader.before

\* a second run has ended on a store that holds a shape the loader inserted
C23_Witness ==
    /\ loader.pc = "idle"
    /\ loader.repeat
    /\ \E r \in shape : r.uri \in Guids

\* C24: after `load` has processed a file whose shape has a URI that is a
\* key of the URL map, the mapping table holds exactly one srv='lost'
\* mapping of that shape, and its attrs.uri is the peer URL of the map
C24_LoadedShapeIsMapped ==
    \A r \in shape :
        (/\ loader.pos >= 1
         /\ loader.shape_id = r.id
         /\ ~loader.url_map.none
         /\ UrlMapGet(loader.url_map, r.uri) # Absent)
        => LET lost == {m \in mapping : m.srv = LOST_SRV /\ m.shape = r.id}
           IN  /\ Cardinality(lost) = 1
               /\ \A m \in lost :
                      /\ m.attrs.uri.kind = "str"
                      /\ m.attrs.uri.val = <<UrlMapGet(loader.url_map, r.uri)>>

\* C25: whatever `load` runs and update_db calls have been made, no shape
\* has two mappings of a service whose attrs.uri points at a peer (the
\* mappings with srv='lost')
C25_OnePeerMappingPerShape ==
    \A r \in shape :
        Cardinality({m \in mapping : NonLeaf(m) /\ m.shape = r.id}) <= 1

\* update_db has inserted two peer mappings and one is left: it replaced
\* the peer mapping of the shape
C25_Witness ==
    /\ loader.calls >= 2
    /\ \E m \in mapping :
           /\ NonLeaf(m)
           /\ m.shape = loader.shape_id
           /\ m.id = loader.mapping_id_seq - 1
           /\ m.id \in {2, 9}
           /\ \A n \in mapping : NonLeaf(n) => n = m

\* C26: whatever `load` runs and update_db calls have been made, no two
\* rows of the shape table have the same uri and no two have equal
\* geometries
C26_ShapesAreUnique ==
    \A r1, r2 \in shape :
        r1 # r2 => /\ r1.uri # r2.uri
                   /\ ~ST_Equals(r1.geometries, r2.geometries)

\* update_db has found the geometry of a shape that update_db inserted
C26_Witness ==
    /\ loader.shape_id # 0
    /\ loader.shape_id < loader.shape_id_seq - 1
    /\ \E r \in shape : r.id = loader.shape_id /\ r \notin ShapeRows

\* C27: handling a request, whatever its outcome, leaves the shape table
\* and the mapping table as they were
C27_ServingIsReadOnly == [][shape' = shape /\ mapping' = mapping]_vars

\* a findService has been proxied to a peer on a store that holds mappings
C27_Witness ==
    /\ Handled
    /\ posts # <<>>
    /\ mapping # {}
    /\ shape = ShapeRows

\* the mappings of the requested service whose shape intersects the
\* geometry of the request
IntersectMatches ==
    { m \in mapping :
        /\ m.srv = req.data.service
        /\ \E r \in shape : r.id = m.shape /\ ST_Intersects(r.geometries, ReqGeometry) }

\* C28: a findIntersect whose geometry intersects the shapes of n mappings
\* of the requested service is answered, when n > 1, with
\* <findIntersectResponses> holding n <findIntersectResponse> children of
\* one <mapping> each, and when n = 1 with one <findIntersectResponse>
C28_OneResponsePerMatch ==
    (/\ DispatchedRequest
     /\ req.data.type_ = "findIntersect"
     /\ req.data.srsName = SRS_URN
     /\ req.data.geomTag = "Point" => Len(req.data.pos) = 2)
    => LET n == Cardinality(IntersectMatches)
           each == Children(res.body, "findIntersectResponse")
       IN  /\ n > 1 =>
                /\ res.body.ns = LOST_NAMESPACE
                /\ res.body.tag = "findIntersectResponses"
                /\ Len(each) = n
                /\ \A i \in DOMAIN each : Len(Children(each[i], "mapping")) = 1
           /\ n = 1 =>
                /\ res.body.ns = LOST_NAMESPACE
                /\ res.body.tag = "findIntersectResponse"

\* C29: a findService is answered from a mapping only if the service of
\* that mapping is the requested service, and when shapes contain the
\* point but none has a mapping of the requested service the answer is
\* <errors> with the child notFound
C29_LookupIsFilteredByService ==
    PointFindService =>
        /\ (/\ res.status = 200
            /\ res.body.ns = LOST_NAMESPACE
            /\ res.body.tag = "findServiceResponse"
            /\ posts = <<>>)
           => \A i \in DOMAIN Children(res.body, "mapping") :
                  LET services == Children(Children(res.body, "mapping")[i],
                                           "service")
                  IN  /\ Len(services) = 1
                      /\ services[1].text = req.data.service
        /\ (Matches = {} /\ ~OutsideEveryShape)
           => res.status = 200 /\ IsErrors(res.body, "notFound")

\* C30: when the peer does not answer the forwarded request in time, the
\* server answers <errors> with the child serverTimeout
C30_PeerTimeoutIsServerTimeout ==
    (Len(posts) = 1 /\ posts[1].reply.kind = "timeout")
    => res.status = 200 /\ IsErrors(res.body, "serverTimeout")


\* C32: the request a proxying server forwards carries the path of the
\* incoming request with the server's server_id appended (a new path of
\* one entry when the incoming request has none).
C32_ForwardedPathAppended ==
    posts # <<>> => posts[1].data.path = Append(req.data.path, server_id)

\* C33: while handling one request the server issues at most one peer
\* POST, and none unless it is in proxy mode and the request matched a
\* non-leaf mapping.
C33_OnePeerPost ==
    /\ Len(posts) <= 1
    /\ posts # <<>> =>
          /\ ~redirect
          /\ PointFindService
          /\ \E m \in Matches : NonLeaf(m)

\* the area of the shape of a mapping
Area(m) == Cardinality((CHOOSE r \in shape : r.id = m.shape).geometries)

\* the rows of M with the shape of the smallest area
Smallest(M) == {m \in M : \A n \in M : Area(m) <= Area(n)}

\* C34: when several mappings of the requested service qualify, the row
\* the answer is made from is one whose shape has the smallest area: the
\* redirect names its uri, the forwarded request goes to its uri, and the
\* mapping of a findIntersectResponse carries its id.
C34_SmallestAreaFirst ==
    /\ (PointFindService /\ redirect /\ Cardinality(Matches) > 1
           /\ res.status = 200 /\ res.body.tag = "redirect")
        => \E m \in Smallest(Matches) :
               /\ m.attrs.uri.kind = "str"
               /\ <<"target", m.attrs.uri.val[1]>> \in res.body.attrs
    /\ (PointFindService /\ Cardinality(Matches) > 1 /\ posts # <<>>)
        => \E m \in Smallest(Matches) :
               /\ m.attrs.uri.kind = "str"
               /\ posts[1].url = m.attrs.uri.val[1]
    /\ (DispatchedRequest /\ req.data.type_ = "findIntersect"
           /\ (req.data.geomTag = "Point" => Len(req.data.pos) = 2)
           /\ Cardinality(IntersectMatches) > 1 /\ res.status = 200
           /\ res.body.tag = "findIntersectResponse")
        => \E m \in Smallest(IntersectMatches) :
               <<"sourceId", ToString(m.id)>> \in res.body.children[1].attrs

\* the last request fails one of the validations: content type, XML
\* syntax, namespace, operation, profile, SRS, geometry type
ValidationRejected ==
    /\ Handled
    /\ \/ req.mimetype # LOST_MIME_TYPE
       \/ ~req.data.wellformed
       \/ req.data.ns # LOST_NAMESPACE
       \/ req.data.type_ \notin {"findService", "findIntersect"}
       \/ req.data.profile \notin lost_server
       \/ req.data.srsName # SRS_URN
       \/ req.data.geomTag \notin {"Point", "Polygon", "MultiPolygon"}

\* C37: for a request that fails a validation (content type, XML syntax,
\* namespace, operation, profile, SRS, geometry type) the server issues
\* no store query and no peer POST.
C37_RejectedBeforeLookup ==
    ValidationRejected => queries = <<>> /\ posts = <<>>

\* C38: the answer is <errors> with the child locationProfileUnrecognized
\* only when the profile of the request has no registered handler.
C38_ProfileErrorOnlyForProfile ==
    (Handled /\ IsErrors(res.body, "locationProfileUnrecognized"))
    => req.data.profile \notin lost_server

\* the last request reached the proxy branch of findService: the server
\* is in proxy mode and the service-filtered query returned a row with a
\* uri
ProxyBranch ==
    /\ PointFindService
    /\ ~redirect
    /\ Matches # {}
    /\ \A m \in Matches : m.attrs.uri.kind # "none"

\* C39: a findService that reaches the proxy branch is answered with one
\* XML element, whatever the outcome of the peer call: proxy_request
\* never returns an absent value.
C39_ProxyAlwaysAnswers ==
    ProxyBranch => res.status = 200 /\ res.body # None

\* the request went round a cycle of the federation: a server received
\* it a second time
FedCycled ==
    \E i, j \in 1..Len(fed.visited) : i < j /\ fed.visited[i] = fed.visited[j]

\* C31: in a federation of proxy-mode servers whose non-leaf mappings
\* form a cycle, a recursive findService ends: a server that receives
\* the request a second time does not forward it again, so the chain of
\* peer POSTs stops there, and the client is answered <errors> with the
\* child loop.
C31_CycleEndsInLoop ==
    /\ \A i, j \in 1..(Len(fed.visited) - 1) :
          i < j => fed.visited[i] # fed.visited[j]
    /\ (fed.pc = "done" /\ FedCycled) => IsErrors(res.body, "loop")

\* C35: a request that has completed holds no pooled connection,
\* whichever way it ended, a request holds a connection only inside a
\* with block, and the connections checked out never exceed max_con.
C35_ConnectionsAreReleased ==
    /\ Cardinality(pool.out) <= pool.max_con
    /\ \A t \in Threads : t \in pool.out => pool.thr[t].pc = "with"

\* C35 witness: a request whose query raised inside the with block has
\* completed with an error while another request holds the connection
C35_Witness ==
    \E t, u \in Threads :
        /\ pool.thr[t].pc = "done"
        /\ pool.thr[t].kind = "exception"
        /\ QueryRaises(pool.thr[t].req)
        /\ pool.thr[u].pc = "with"
        /\ Cardinality(pool.out) = pool.max_con

\* C36: when two update_db calls that ran at the same time on the same
\* geometry have both ended, the shape table holds exactly one row for
\* that geometry.
C36_OneRowUnderRace ==
    \A p, q \in Racers :
        (/\ p # q
         /\ race.pc = "racing"
         /\ race.proc[p].pc = "done"
         /\ race.proc[q].pc = "done"
         /\ race.proc[p].geometry = race.proc[q].geometry)
        => Cardinality(SelectEquals(shape, race.proc[p].geometry)) = 1

\* the rows of the mapping table that a step removes, adds or changes
ChangedMappings == (mapping \ mapping') \cup (mapping' \ mapping)

\* the last update_db call had a uri that is a key of its URL map
UriInMap ==
    /\ loader'.call_uri # Absent
    /\ ~loader'.call_map.none
    /\ UrlMapGet(loader'.call_map, loader'.call_uri) # Absent

====
